---- MODULE Spec2Model ----
(***************************************************************************)
(* OculusLauncherService (bs-manager): the launch pipeline of the Oculus   *)
(* store, its stale-link cleanup (deleteBsSymlinks), the backup / restore  *)
(* of the platform's own install directory, and the event stream handed to *)
(* the caller.  The library root is modelled as a map from entry names to  *)
(* entries; every await of the source is one step of a request.            *)
(***************************************************************************)
EXTENDS Integers, Sequences, FiniteSets, TLC

\* ------------------------------------------------------------------ bounds

\* number of request slots (launch streams / maintenance calls)
NProcs == 2

Procs == 1..NProcs

\* ------------------------------------------------------- program constants

\* timeout(sToMs(30)): seconds of one library-discovery wait
TIMEOUT_S == 30

\* sToMs of shared/helpers/time.helpers
sToMs(s) == s * 1000

\* entry names of the library root, as sequences of name segments
OCULUS_BS_DIR == <<"bs">>

\* the canonical name with a fixed suffix
OCULUS_BS_BACKUP_DIR == <<"bs", "bak">>

\* another entry whose name starts with the canonical name
BS_SIBLING == <<"bs", "old">>

\* an entry whose name does not start with the canonical name
OTHER_ENTRY == <<"other">>

Names == {OCULUS_BS_DIR, OCULUS_BS_BACKUP_DIR, BS_SIBLING, OTHER_ENTRY}

\* String.prototype.startsWith on names
StartsWith(name, prefix) ==
    /\ Len(name) >= Len(prefix)
    /\ \A i \in 1..Len(prefix) : name[i] = prefix[i]

\* ----------------------------------------------------- directories on disk

\* the bodies a directory entry or a junction can lead to: the platform's own
\* install, two versions kept by the version repository, a foreign directory
Bodies == {"original", "v1", "v2", "foreign"}

Versions == {"v1", "v2"}

\* readdir(dir).includes("metadata.config")
HasMarker(body) == body \in Versions

\* pathExists(join(dir, BS_EXECUTABLE)): v2 is an install without executable
HasExe(body) == body \in {"original", "v1", "foreign"}

\* localVersions.getInstalledVersionPath(version)
getInstalledVersionPath(version) == version

None == [kind |-> "none", body |-> "-"]

Dir(b) == [kind |-> "dir", body |-> b]

Junction(b) == [kind |-> "junction", body |-> b]

Entries == {None} \cup {Dir(b) : b \in Bodies} \cup {Junction(b) : b \in Bodies}

\* fs.helpers isJunction
isJunction(e) == e.kind = "junction"

\* a junction that deleteBsSymlinks owns: its target holds metadata.config
IsManagedLink(e) == isJunction(e) /\ HasMarker(e.body)

\* fs-extra pathExists on an entry of the library root
pathExists(e) == e.kind # "none"

\* ------------------------------------------------------------- error kinds

BS_ALREADY_RUNNING == "BS_ALREADY_RUNNING"

OCULUS_LIB_NOT_FOUND == "OCULUS_LIB_NOT_FOUND"

BS_NOT_FOUND == "BS_NOT_FOUND"

BS_EXIT_ERROR == "BS_EXIT_ERROR"

UNKNOWN_ERROR == "UNKNOWN_ERROR"

ErrorKinds == {BS_ALREADY_RUNNING, OCULUS_LIB_NOT_FOUND, BS_NOT_FOUND,
               BS_EXIT_ERROR, UNKNOWN_ERROR}

ExitCodes == {0, 1}

\* notifications delivered to the subscriber
NextEv(d) == [t |-> "next", d |-> d, code |-> -1]

ErrorEv(k) == [t |-> "error", d |-> k, code |-> -1]

CompleteEv == [t |-> "complete", d |-> "-", code |-> -1]

\* the Exited(code) event of the specification's LaunchEvent
ExitedEv(c) == [t |-> "next", d |-> "BS_EXITED", code |-> c]

BS_LAUNCHING == "BS_LAUNCHING"

\* ------------------------------------------------------------------- state

VARIABLES
    fs,          \* library root: name -> entry
    libOnDisk,   \* the library root directory exists on disk
    oculusLib,   \* oculusLib$: "pending", "null" or "lib" (the replayed value)
    games,       \* running game processes [external, spawned: their spawners]
    lastCall,    \* the last completed public call of this service instance
    stale,       \* how the managed launch that left the present backup ended
    pc,          \* per request: position in the code
    op,          \* per request: "launch", "delete" or "restore"
    opts,        \* per request: launchOptions.version [oculus, id]
    loc,         \* per request: local variables of the pipeline
    obs,         \* per request: the subscriber [events, stopped]
    hist         \* per request: what the request has done (observation only)

vars == <<fs, libOnDisk, oculusLib, games, lastCall, stale, pc, op, opts, loc, obs, hist>>

NoOpts == [oculus |-> TRUE, id |-> "v1"]

LaunchOptions == [oculus : BOOLEAN, id : Versions]

Loc0 == [ running |-> FALSE,      \* bsRunning of launch()
          libPath |-> "unset",    \* oculusLibPath / oculusLib
          links   |-> {},         \* bsmSymlinks
          found   |-> FALSE,      \* the looked-up folder exists
          bsPath  |-> "unset",    \* bsPath: "unset", "null" or "canonical"
          err     |-> "none",     \* the error travelling to .catch: a kind, or "raw"
          exit    |-> -1 ]        \* exitCode

Obs0 == [events |-> <<>>, stopped |-> FALSE]

Hist0 == [ muts      |-> 0,        \* filesystem mutations performed
           spawned   |-> FALSE,    \* a process was spawned
           elapsed   |-> 0,        \* ms spent in discovery timeouts
           cleanup   |-> "none",   \* deleteBsSymlinks: "none", "ok", "err"
           cause     |-> "none",   \* why deleteBsSymlinks rejected
           prep      |-> "none",   \* preparation: "none", "ok", "failed"
           prepStep  |-> "none",   \* the step that failed preparation
           canon0    |-> None,     \* canonical entry when the request began
           backup0   |-> None,     \* backup entry when the request began
           stale0    |-> "none",   \* stale when the request began
           prev      |-> "other",  \* lastCall when the request began
           deleted   |-> {},       \* names whose entries this request unlinked
           badDelete |-> FALSE,    \* it unlinked something it does not own
           logged    |-> -1,       \* exit code written to the log
           rejected  |-> FALSE,    \* taskRunning rejected
           exe       |-> "none",   \* existence check: "none", "found", "missing"
           unsub     |-> "none",   \* pc at which the caller unsubscribed
           seen      |-> 0,        \* notifications delivered when it unsubscribed
           result    |-> "none" ]  \* maintenance call: "ok" or "err"

Finished(l) == pc[l] \in {"idle", "done"}

Init ==
    /\ libOnDisk \in BOOLEAN
    /\ fs \in [Names -> Entries]
    /\ IF libOnDisk
          THEN /\ fs[OCULUS_BS_DIR] \in {None, Dir("original"), Junction("foreign")}
               /\ fs[OCULUS_BS_BACKUP_DIR] = None
               /\ fs[BS_SIBLING] \in {Junction("v1"), Junction("foreign")}
               /\ fs[OTHER_ENTRY] = Junction("v2")
          ELSE \A n \in Names : fs[n] = None
    /\ oculusLib = "pending"
    /\ games \in [external : BOOLEAN, spawned : {{}}]
    /\ lastCall = "other"
    /\ stale = "none"
    /\ pc = [l \in Procs |-> "idle"]
    /\ op = [l \in Procs |-> "launch"]
    /\ opts = [l \in Procs |-> NoOpts]
    /\ loc = [l \in Procs |-> Loc0]
    /\ obs = [l \in Procs |-> Obs0]
    /\ hist = [l \in Procs |-> Hist0]

\* ------------------------------------------------------- the subscriber

\* Subscriber.next: dropped once the subscriber is stopped
SubNext(o, d) ==
    IF o.stopped THEN o ELSE [o EXCEPT !.events = Append(@, NextEv(d))]

\* Subscriber.error: delivered once, and stops the subscriber
SubError(o, k) ==
    IF o.stopped THEN o
    ELSE [events |-> Append(o.events, ErrorEv(k)), stopped |-> TRUE]

\* faulty variant: completion delivered even after an error was delivered
SubCompleteAfterError(o) ==
    [events |-> Append(o.events, CompleteEv), stopped |-> TRUE]

\* Subscriber.complete: delivered once, and stops the subscriber
SubComplete(o) ==
    IF o.stopped THEN o
    ELSE [events |-> Append(o.events, CompleteEv), stopped |-> TRUE]

\* ------------------------------------------------------------ filesystem

\* fs-extra rename inside the library root: fails when the source is missing
\* or when an entry already exists at the destination
\* faulty variant: a rename that replaces an existing target
RenameOverwrites(f, from, to) == f[from] # None

RenameOk(f, from, to) == f[from] # None /\ f[to] = None

Rename(f, from, to) == [f EXCEPT ![to] = f[from], ![from] = None]

\* fs-extra symlink(target, path, "junction"): fails when the parent directory
\* is missing or an entry already exists at path
SymlinkOk(f, onDisk, name) == onDisk /\ f[name] = None

\* fs-extra unlink: removes a link, fails on a directory or a missing entry
UnlinkOk(f, name) == isJunction(f[name])

\* oculus.getGameFolder(name): the folder's path, or null when it is not there
getGameFolder(f, name) == IF pathExists(f[name]) THEN "found" ELSE "null"

\* taskRunning(BS_EXECUTABLE)
taskRunning == games.external \/ games.spawned # {}

\* lines 52-55: the directory links of the library root
Junctions(f) == {n \in Names : isJunction(f[n])}

\* line 57: those whose name starts with the canonical name
BsSymlinks(f) == {n \in Junctions(f) : StartsWith(n, OCULUS_BS_DIR)}

\* faulty variant: the marker filter of lines 60-67 left out
BsmSymlinksUnfiltered(f) == BsSymlinks(f)

\* lines 60-67: those whose target holds metadata.config
BsmSymlinks(f) == {n \in BsSymlinks(f) : HasMarker(f[n].body)}

\* the backup is stale only while it exists
StaleAfter(f, s) == IF f[OCULUS_BS_BACKUP_DIR] = None THEN "none" ELSE s

\* ------------------------------------------------------ starting a request

\* a request slot is reused once its request has ended; the records of ended
\* requests are discarded when a new one begins
Fresh(f, l, v, init) ==
    [m \in Procs |-> IF m = l THEN v ELSE IF Finished(m) THEN init ELSE f[m]]

Begin(l, kind, o, start) ==
    /\ Finished(l)
    /\ pc' = Fresh(pc, l, start, "idle")
    /\ op' = Fresh(op, l, kind, "launch")
    /\ opts' = Fresh(opts, l, o, NoOpts)
    /\ loc' = Fresh(loc, l, Loc0, Loc0)
    /\ obs' = Fresh(obs, l, Obs0, Obs0)
    /\ hist' = Fresh(hist, l,
                     [Hist0 EXCEPT !.canon0 = fs[OCULUS_BS_DIR],
                                   !.backup0 = fs[OCULUS_BS_BACKUP_DIR],
                                   !.stale0 = stale,
                                   !.prev = lastCall],
                     Hist0)
    /\ UNCHANGED <<fs, libOnDisk, oculusLib, games, lastCall, stale>>

\* launch(launchOptions) is subscribed: the async body starts (line 118)
Subscribe(l, o) == Begin(l, "launch", o, "check")

\* deleteBsSymlinks() called directly
CallDelete(l) == Begin(l, "delete", NoOpts, "del_wait")

\* restoreOriginalBeatSaber() called directly
CallRestore(l) == Begin(l, "restore", NoOpts, "restore_lookup")

\* ------------------------------------------------------ exclusivity check

\* faulty variant: the running game is noticed but the pipeline goes on
CheckGoesOn(l, rejects) ==
    /\ pc[l] = "check"
    /\ loc' = [loc EXCEPT ![l].running = IF rejects THEN FALSE ELSE taskRunning]
    /\ pc' = [pc EXCEPT ![l] = "del_wait"]
    /\ hist' = [hist EXCEPT ![l].rejected = rejects]
    /\ UNCHANGED <<fs, libOnDisk, oculusLib, games, lastCall, stale, op, opts, obs>>

\* faulty variant: a rejected query counts as a running game
CheckRejectRuns(l, rejects) ==
    /\ pc[l] = "check"
    /\ LET r == IF rejects THEN TRUE ELSE taskRunning IN
       /\ loc' = [loc EXCEPT ![l].running = r,
                             ![l].err = IF r THEN BS_ALREADY_RUNNING ELSE @]
       /\ pc' = [pc EXCEPT ![l] = IF r THEN "catch" ELSE "del_wait"]
    /\ hist' = [hist EXCEPT ![l].rejected = rejects]
    /\ UNCHANGED <<fs, libOnDisk, oculusLib, games, lastCall, stale, op, opts, obs>>

\* lines 122-125: taskRunning(...).catch(() => false), then the throw
Check(l, rejects) ==
    /\ pc[l] = "check"
    /\ LET r == IF rejects THEN FALSE ELSE taskRunning IN
       /\ loc' = [loc EXCEPT ![l].running = r,
                             ![l].err = IF r THEN BS_ALREADY_RUNNING ELSE @]
       /\ pc' = [pc EXCEPT ![l] = IF r THEN "catch" ELSE "del_wait"]
    /\ hist' = [hist EXCEPT ![l].rejected = rejects]
    /\ UNCHANGED <<fs, libOnDisk, oculusLib, games, lastCall, stale, op, opts, obs>>

\* -------------------------------------------------------- deleteBsSymlinks

\* where a request goes when deleteBsSymlinks settles: launch() logs a
\* rejection and goes on to preparation (lines 128-130); a direct call ends
AfterDelete(l) ==
    IF op[l] = "launch"
       THEN IF opts[l].oculus THEN "restore_lookup" ELSE "dg_wait"
       ELSE "done"

\* faulty variant: a rejected cleanup ends the launch
DelSettleFatal(l, res, why, h) ==
    /\ pc' = [pc EXCEPT ![l] = IF op[l] = "launch" /\ res = "err"
                                  THEN "catch" ELSE AfterDelete(l)]
    /\ hist' = [hist EXCEPT ![l] = [h EXCEPT !.cleanup = res, !.cause = why,
                                       !.result = IF op[l] = "launch" THEN @ ELSE res]]
    /\ lastCall' = IF op[l] = "launch" THEN lastCall
                   ELSE IF res = "ok" THEN "delete_ok" ELSE "delete_err"

DelSettle(l, res, why, h) ==
    /\ pc' = [pc EXCEPT ![l] = AfterDelete(l)]
    /\ hist' = [hist EXCEPT ![l] = [h EXCEPT !.cleanup = res, !.cause = why,
                                       !.result = IF op[l] = "launch" THEN @ ELSE res]]
    /\ lastCall' = IF op[l] = "launch" THEN lastCall
                   ELSE IF res = "ok" THEN "delete_ok" ELSE "delete_err"

\* lines 46-50 with oculusLib$ already resolved: the replayed value is taken
DelLib(l) ==
    /\ pc[l] = "del_wait"
    /\ oculusLib # "pending"
    /\ IF oculusLib = "null" \/ ~libOnDisk
          THEN /\ DelSettle(l, "err", "lib", hist[l])
               /\ loc' = loc
          ELSE /\ pc' = [pc EXCEPT ![l] = "del_scan"]
               /\ loc' = [loc EXCEPT ![l].libPath = "lib"]
               /\ UNCHANGED <<hist, lastCall>>
    /\ UNCHANGED <<fs, libOnDisk, oculusLib, games, stale, op, opts, obs>>

\* lines 46-50 with oculusLib$ silent for the whole window: timeout, null, throw
DelTimeout(l) ==
    /\ pc[l] = "del_wait"
    /\ oculusLib = "pending"
    /\ DelSettle(l, "err", "lib",
                 [hist[l] EXCEPT !.elapsed = @ + sToMs(TIMEOUT_S)])
    /\ UNCHANGED <<fs, libOnDisk, oculusLib, games, stale, op, opts, loc, obs>>

\* lines 52-67: list the library, keep the marked links named like the game
DelScan(l, readdirFails) ==
    /\ pc[l] = "del_scan"
    /\ IF readdirFails
          THEN /\ DelSettle(l, "err", "readdir", hist[l])
               /\ loc' = loc
          ELSE /\ pc' = [pc EXCEPT ![l] = "del_unlink"]
               /\ loc' = [loc EXCEPT ![l].links = BsmSymlinks(fs)]
               /\ UNCHANGED <<hist, lastCall>>
    /\ UNCHANGED <<fs, libOnDisk, oculusLib, games, stale, op, opts, obs>>

\* faulty variant: an empty list of links is treated as a failure
UnlinkAllEmptyFails(links, gone) == gone = links /\ links # {}

\* lines 69-71: Promise.all resolves when every unlink resolved
UnlinkAll(links, gone) == gone = links

\* lines 69-71: unlink every kept link; `failing` are the unlinks the OS refuses
DelUnlink(l, failing) ==
    /\ pc[l] = "del_unlink"
    /\ failing \subseteq loc[l].links
    /\ LET gone == {n \in loc[l].links \ failing : UnlinkOk(fs, n)}
           newFs == [n \in Names |-> IF n \in gone THEN None ELSE fs[n]]
           h == [hist[l] EXCEPT !.muts = @ + Cardinality(gone),
                                !.deleted = @ \cup gone,
                                !.badDelete = @ \/ \E n \in gone :
                                    ~(/\ isJunction(fs[n])
                                      /\ StartsWith(n, OCULUS_BS_DIR)
                                      /\ HasMarker(fs[n].body))]
       IN /\ fs' = newFs
          /\ stale' = StaleAfter(newFs, stale)
          /\ IF UnlinkAll(loc[l].links, gone)
                THEN DelSettle(l, "ok", "none", h)
                ELSE DelSettle(l, "err", "unlink", h)
    /\ UNCHANGED <<libOnDisk, oculusLib, games, op, opts, loc, obs>>

\* ----------------------------------------------------------- preparation

\* line 131: any rejection of the preparation is rethrown as
\* CustomError(OCULUS_LIB_NOT_FOUND)
PrepFail(l, step) ==
    /\ pc' = [pc EXCEPT ![l] = "catch"]
    /\ loc' = [loc EXCEPT ![l].err = OCULUS_LIB_NOT_FOUND]
    /\ hist' = [hist EXCEPT ![l].prep = "failed", ![l].prepStep = step]

\* where a request goes when restoreOriginalBeatSaber resolves
AfterRestore(l) == IF op[l] = "launch" THEN "orig_path" ELSE "done"

\* lines 82-83: look the backup folder up; nothing to restore without it
RestoreLookup(l) ==
    /\ pc[l] = "restore_lookup"
    /\ LET there == getGameFolder(fs, OCULUS_BS_BACKUP_DIR) # "null" IN
       /\ loc' = [loc EXCEPT ![l].found = there]
       /\ pc' = [pc EXCEPT ![l] = IF there THEN "restore_rename" ELSE AfterRestore(l)]
       /\ hist' = [hist EXCEPT ![l].result =
                      IF ~there /\ op[l] = "restore" THEN "ok" ELSE @]
       /\ lastCall' = IF ~there /\ op[l] = "restore" THEN "other" ELSE lastCall
    /\ UNCHANGED <<fs, libOnDisk, oculusLib, games, stale, op, opts, obs>>

\* lines 84-85: rename the backup back to the canonical name
RestoreRename(l) ==
    /\ pc[l] = "restore_rename"
    /\ IF RenameOk(fs, OCULUS_BS_BACKUP_DIR, OCULUS_BS_DIR)
          THEN /\ fs' = Rename(fs, OCULUS_BS_BACKUP_DIR, OCULUS_BS_DIR)
               /\ stale' = "none"
               /\ pc' = [pc EXCEPT ![l] = AfterRestore(l)]
               /\ hist' = [hist EXCEPT ![l].muts = @ + 1,
                                       ![l].result = IF op[l] = "restore" THEN "ok" ELSE @]
               /\ loc' = loc
          ELSE /\ UNCHANGED <<fs, stale>>
               /\ IF op[l] = "launch"
                     THEN PrepFail(l, "restore")
                     ELSE /\ pc' = [pc EXCEPT ![l] = "done"]
                          /\ hist' = [hist EXCEPT ![l].result = "err"]
                          /\ loc' = loc
    /\ lastCall' = IF op[l] = "restore" THEN "other" ELSE lastCall
    /\ UNCHANGED <<libOnDisk, oculusLib, games, op, opts, obs>>

\* lines 92-96: bsPath is the promise of getGameFolder, never falsy, so the
\* throw of line 94 is dead and a missing folder is returned as null
OrigPath(l) ==
    /\ pc[l] = "orig_path"
    /\ loc' = [loc EXCEPT ![l].bsPath =
                  IF getGameFolder(fs, OCULUS_BS_DIR) = "null" THEN "null" ELSE "canonical"]
    /\ pc' = [pc EXCEPT ![l] = "exists"]
    /\ hist' = [hist EXCEPT ![l].prep = "ok"]
    /\ UNCHANGED <<fs, libOnDisk, oculusLib, games, lastCall, stale, op, opts, obs>>

\* lines 101-105 with oculusLib$ already resolved
DgLib(l) ==
    /\ pc[l] = "dg_wait"
    /\ oculusLib # "pending"
    /\ IF oculusLib = "null"
          THEN PrepFail(l, "lib")
          ELSE /\ pc' = [pc EXCEPT ![l] = "backup_lookup"]
               /\ loc' = [loc EXCEPT ![l].libPath = "lib"]
               /\ hist' = hist
    /\ UNCHANGED <<fs, libOnDisk, oculusLib, games, lastCall, stale, op, opts, obs>>

\* lines 101-105 with oculusLib$ silent for the whole window
DgTimeout(l) ==
    /\ pc[l] = "dg_wait"
    /\ oculusLib = "pending"
    /\ pc' = [pc EXCEPT ![l] = "catch"]
    /\ loc' = [loc EXCEPT ![l].err = OCULUS_LIB_NOT_FOUND]
    /\ hist' = [hist EXCEPT ![l].prep = "failed", ![l].prepStep = "lib",
                            ![l].elapsed = @ + sToMs(TIMEOUT_S)]
    /\ UNCHANGED <<fs, libOnDisk, oculusLib, games, lastCall, stale, op, opts, obs>>

\* lines 75-76: no canonical folder, nothing to back up
BackupLookup(l) ==
    /\ pc[l] = "backup_lookup"
    /\ LET there == getGameFolder(fs, OCULUS_BS_DIR) # "null" IN
       /\ loc' = [loc EXCEPT ![l].found = there]
       /\ pc' = [pc EXCEPT ![l] = IF there THEN "backup_rename" ELSE "symlink"]
    /\ UNCHANGED <<fs, libOnDisk, oculusLib, games, lastCall, stale, op, opts, obs, hist>>

\* faulty variant: the canonical folder is removed instead of renamed
backupRemoves(f) == [f EXCEPT ![OCULUS_BS_DIR] = None]

\* lines 77-78: rename(bsFolder, backupPath)
backupOriginalBeatSaber(f) == Rename(f, OCULUS_BS_DIR, OCULUS_BS_BACKUP_DIR)

\* lines 77-78: rename the canonical folder to the backup name
BackupRename(l) ==
    /\ pc[l] = "backup_rename"
    /\ IF RenameOk(fs, OCULUS_BS_DIR, OCULUS_BS_BACKUP_DIR)
          THEN /\ fs' = backupOriginalBeatSaber(fs)
               /\ pc' = [pc EXCEPT ![l] = "symlink"]
               /\ hist' = [hist EXCEPT ![l].muts = @ + 1]
               /\ loc' = loc
          ELSE /\ fs' = fs
               /\ PrepFail(l, "backup")
    /\ UNCHANGED <<libOnDisk, oculusLib, games, lastCall, stale, op, opts, obs>>

\* lines 111-115: link the canonical name to the version's directory
Symlink(l) ==
    /\ pc[l] = "symlink"
    /\ IF SymlinkOk(fs, libOnDisk, OCULUS_BS_DIR)
          THEN /\ fs' = [fs EXCEPT ![OCULUS_BS_DIR] =
                            Junction(getInstalledVersionPath(opts[l].id))]
               /\ pc' = [pc EXCEPT ![l] = "exists"]
               /\ loc' = [loc EXCEPT ![l].bsPath = "canonical"]
               /\ hist' = [hist EXCEPT ![l].muts = @ + 1, ![l].prep = "ok"]
          ELSE /\ fs' = fs
               /\ PrepFail(l, "symlink")
    /\ UNCHANGED <<libOnDisk, oculusLib, games, lastCall, stale, op, opts, obs>>

\* ------------------------------------------------- existence check, spawn

\* pathExists(join(bsPath, BS_EXECUTABLE)) through the canonical entry
ExeExists(f) == pathExists(f[OCULUS_BS_DIR]) /\ HasExe(f[OCULUS_BS_DIR].body)

\* lines 134-143: path.join(null, ...) throws a TypeError; a missing executable
\* throws BS_NOT_FOUND; otherwise BS_LAUNCHING is emitted and the game spawned
Exists(l, spawnFails) ==
    /\ pc[l] = "exists"
    /\ IF loc[l].bsPath = "null"
          THEN /\ loc' = [loc EXCEPT ![l].err = "raw"]
               /\ pc' = [pc EXCEPT ![l] = "catch"]
               /\ UNCHANGED <<obs, games, hist>>
          ELSE IF ~ExeExists(fs)
          THEN /\ loc' = [loc EXCEPT ![l].err = BS_NOT_FOUND]
               /\ pc' = [pc EXCEPT ![l] = "catch"]
               /\ hist' = [hist EXCEPT ![l].exe = "missing"]
               /\ UNCHANGED <<obs, games>>
          ELSE /\ obs' = [obs EXCEPT ![l] = SubNext(@, BS_LAUNCHING)]
               /\ IF spawnFails
                     THEN /\ loc' = [loc EXCEPT ![l].err = BS_EXIT_ERROR]
                          /\ pc' = [pc EXCEPT ![l] = "catch"]
                          /\ hist' = [hist EXCEPT ![l].exe = "found"]
                          /\ games' = games
                     ELSE /\ games' = [games EXCEPT !.spawned = @ \cup {l}]
                          /\ hist' = [hist EXCEPT ![l].spawned = TRUE, ![l].exe = "found"]
                          /\ pc' = [pc EXCEPT ![l] = "running"]
                          /\ loc' = loc
    /\ UNCHANGED <<fs, libOnDisk, oculusLib, lastCall, stale, op, opts>>

\* the spawned game terminates: launchBs resolves with its exit code
ProcessExit(l, code) ==
    /\ pc[l] = "running"
    /\ games' = [games EXCEPT !.spawned = @ \ {l}]
    /\ loc' = [loc EXCEPT ![l].exit = code]
    /\ pc' = [pc EXCEPT ![l] = "then"]
    /\ UNCHANGED <<fs, libOnDisk, oculusLib, lastCall, stale, op, opts, obs, hist>>

\* faulty variant: the exit code is also published on the stream
ThenPublishes(l) ==
    /\ pc[l] = "then"
    /\ hist' = [hist EXCEPT ![l].logged = loc[l].exit]
    /\ obs' = [obs EXCEPT ![l] =
                  IF @.stopped THEN @
                  ELSE [@ EXCEPT !.events = Append(@, ExitedEv(loc[l].exit))]]
    /\ pc' = [pc EXCEPT ![l] = "finally"]
    /\ UNCHANGED <<fs, libOnDisk, oculusLib, games, lastCall, stale, op, opts, loc>>

\* lines 145-147: the exit code is logged
Then(l) ==
    /\ pc[l] = "then"
    /\ hist' = [hist EXCEPT ![l].logged = loc[l].exit]
    /\ pc' = [pc EXCEPT ![l] = "finally"]
    /\ UNCHANGED <<fs, libOnDisk, oculusLib, games, lastCall, stale, op, opts, loc, obs>>

\* faulty variant: the caught value is delivered as it is
CatchRaw(l) ==
    /\ pc[l] = "catch"
    /\ obs' = [obs EXCEPT ![l] = SubError(@, loc[l].err)]
    /\ pc' = [pc EXCEPT ![l] = "finally"]
    /\ UNCHANGED <<fs, libOnDisk, oculusLib, games, lastCall, stale, op, opts, loc, hist>>

\* lines 147-152: a CustomError is delivered as it is, anything else wrapped
Catch(l) ==
    /\ pc[l] = "catch"
    /\ obs' = [obs EXCEPT ![l] =
                  SubError(@, IF loc[l].err = "raw" THEN UNKNOWN_ERROR ELSE loc[l].err)]
    /\ pc' = [pc EXCEPT ![l] = "finally"]
    /\ UNCHANGED <<fs, libOnDisk, oculusLib, games, lastCall, stale, op, opts, loc, hist>>

\* lines 153-155: obs.complete(), whatever happened before
Finally(l) ==
    /\ pc[l] = "finally"
    /\ obs' = [obs EXCEPT ![l] = SubComplete(@)]
    /\ pc' = [pc EXCEPT ![l] = "done"]
    /\ lastCall' = "other"
    /\ stale' = IF ~opts[l].oculus /\ pathExists(fs[OCULUS_BS_BACKUP_DIR])
                   THEN IF loc[l].err = "none" THEN "completed" ELSE "failed"
                   ELSE stale
    /\ UNCHANGED <<fs, libOnDisk, oculusLib, games, op, opts, loc, hist>>

\* ------------------------------------------------------------ environment

\* lines 34-42: the constructor's discovery settles: the parent of a found
\* game folder, else the default library's Software folder, else null; an
\* error of either lookup gives null
Discovery(defaultLib, fails) ==
    /\ oculusLib = "pending"
    /\ oculusLib' =
          IF fails THEN "null"
          ELSE IF \/ pathExists(fs[OCULUS_BS_DIR])
                  \/ pathExists(fs[OCULUS_BS_BACKUP_DIR]) THEN "lib"
          ELSE IF defaultLib THEN "lib"
          ELSE "null"
    /\ UNCHANGED <<fs, libOnDisk, games, lastCall, stale, pc, op, opts, loc, obs, hist>>

\* the game is started or stopped outside this service (the store's client)
ExternalGame ==
    /\ games' = [games EXCEPT !.external = ~@]
    /\ UNCHANGED <<fs, libOnDisk, oculusLib, lastCall, stale, pc, op, opts, loc, obs, hist>>

\* the application dies or is restarted: every pipeline is lost where it
\* stood, the filesystem stays, a new service instance starts discovery
\* again (lines 28-43), a spawned game lives on
ActiveManaged == \E l \in Procs : ~Finished(l) /\ op[l] = "launch" /\ ~opts[l].oculus

Restart ==
    /\ oculusLib' = "pending"
    /\ games' = [external |-> taskRunning, spawned |-> {}]
    /\ lastCall' = "other"
    /\ stale' = IF ActiveManaged /\ pathExists(fs[OCULUS_BS_BACKUP_DIR])
                   THEN "crashed" ELSE stale
    /\ pc' = [l \in Procs |-> "idle"]
    /\ op' = [l \in Procs |-> "launch"]
    /\ opts' = [l \in Procs |-> NoOpts]
    /\ loc' = [l \in Procs |-> Loc0]
    /\ obs' = [l \in Procs |-> Obs0]
    /\ hist' = [l \in Procs |-> Hist0]
    /\ UNCHANGED <<fs, libOnDisk>>

\* ---------------------------------------------------------- specification

\* one request at a time: a request begins when every other one has ended,
\* in the first slot
Serial(l) == (\A m \in Procs \ {l} : Finished(m)) /\ (\A m \in Procs : l <= m)

Next ==
    \/ \E l \in Procs, o \in LaunchOptions : Serial(l) /\ Subscribe(l, o)
    \/ \E l \in Procs : Serial(l) /\ CallDelete(l)
    \/ \E l \in Procs : Serial(l) /\ CallRestore(l)
    \/ \E l \in Procs, rejects \in BOOLEAN : Check(l, rejects)
    \/ \E l \in Procs : DelLib(l)
    \/ \E l \in Procs : DelTimeout(l)
    \/ \E l \in Procs, readdirFails \in BOOLEAN : DelScan(l, readdirFails)
    \/ \E l \in Procs : \E failing \in SUBSET loc[l].links : DelUnlink(l, failing)
    \/ \E l \in Procs : RestoreLookup(l)
    \/ \E l \in Procs : RestoreRename(l)
    \/ \E l \in Procs : OrigPath(l)
    \/ \E l \in Procs : DgLib(l)
    \/ \E l \in Procs : DgTimeout(l)
    \/ \E l \in Procs : BackupLookup(l)
    \/ \E l \in Procs : BackupRename(l)
    \/ \E l \in Procs : Symlink(l)
    \/ \E l \in Procs, spawnFails \in BOOLEAN : Exists(l, spawnFails)
    \/ \E l \in Procs, code \in ExitCodes : ProcessExit(l, code)
    \/ \E l \in Procs : Then(l)
    \/ \E l \in Procs : Catch(l)
    \/ \E l \in Procs : Finally(l)
    \/ \E defaultLib \in BOOLEAN, fails \in BOOLEAN : Discovery(defaultLib, fails)
    \/ ExternalGame
    \/ Restart

Spec == Init /\ [][Next]_vars

\* ------------------------------------------------------------ concurrency

\* launch() does not serialise its callers (line 118): a second stream may be
\* subscribed while the first one is anywhere in its pipeline
Overlap(l) ==
    /\ \A m \in Procs : pc[m] # "done"
    /\ \A m \in Procs : m < l => pc[m] # "idle"

NextConc ==
    \/ \E l \in Procs, o \in LaunchOptions : Overlap(l) /\ Subscribe(l, o)
    \/ \E l \in Procs : Check(l, FALSE)
    \/ \E l \in Procs : DelLib(l)
    \/ \E l \in Procs : DelTimeout(l)
    \/ \E l \in Procs, readdirFails \in BOOLEAN : DelScan(l, readdirFails)
    \/ \E l \in Procs : \E failing \in SUBSET loc[l].links : DelUnlink(l, failing)
    \/ \E l \in Procs : RestoreLookup(l)
    \/ \E l \in Procs : RestoreRename(l)
    \/ \E l \in Procs : OrigPath(l)
    \/ \E l \in Procs : DgLib(l)
    \/ \E l \in Procs : DgTimeout(l)
    \/ \E l \in Procs : BackupLookup(l)
    \/ \E l \in Procs : BackupRename(l)
    \/ \E l \in Procs : Symlink(l)
    \/ \E l \in Procs, spawnFails \in BOOLEAN : Exists(l, spawnFails)
    \/ \E l \in Procs : ProcessExit(l, 0)
    \/ \E l \in Procs : Then(l)
    \/ \E l \in Procs : Catch(l)
    \/ \E l \in Procs : Finally(l)
    \/ \E defaultLib \in BOOLEAN, fails \in BOOLEAN : Discovery(defaultLib, fails)

\* launches that may interleave step by step
ConcSpec == Init /\ [][NextConc]_vars

\* ------------------------------------------------------------ cancellation

\* faulty variant: a teardown that kills the spawned game
UnsubscribeKills(l) ==
    /\ op[l] = "launch" /\ pc[l] \notin {"idle", "done"}
    /\ ~obs[l].stopped
    /\ obs' = [obs EXCEPT ![l].stopped = TRUE]
    /\ hist' = [hist EXCEPT ![l].unsub = pc[l], ![l].seen = Len(obs[l].events)]
    /\ games' = [games EXCEPT !.spawned = @ \ {l}]
    /\ UNCHANGED <<fs, libOnDisk, oculusLib, lastCall, stale, pc, op, opts, loc>>

\* the caller unsubscribes before a terminal notification: the subscriber is
\* closed; the function given to new Observable (lines 118-156) returns no
\* teardown, so the async body and the spawned game go on as they were
Unsubscribe(l) ==
    /\ op[l] = "launch" /\ pc[l] \notin {"idle", "done"}
    /\ ~obs[l].stopped
    /\ obs' = [obs EXCEPT ![l].stopped = TRUE]
    /\ hist' = [hist EXCEPT ![l].unsub = pc[l], ![l].seen = Len(obs[l].events)]
    /\ UNCHANGED <<fs, libOnDisk, oculusLib, games, lastCall, stale, pc, op, opts, loc>>

NextCancel ==
    \/ \E l \in Procs, o \in LaunchOptions : Serial(l) /\ Subscribe(l, o)
    \/ \E l \in Procs : Unsubscribe(l)
    \/ \E l \in Procs, rejects \in BOOLEAN : Check(l, rejects)
    \/ \E l \in Procs : DelLib(l)
    \/ \E l \in Procs : DelTimeout(l)
    \/ \E l \in Procs, readdirFails \in BOOLEAN : DelScan(l, readdirFails)
    \/ \E l \in Procs : \E failing \in SUBSET loc[l].links : DelUnlink(l, failing)
    \/ \E l \in Procs : RestoreLookup(l)
    \/ \E l \in Procs : RestoreRename(l)
    \/ \E l \in Procs : OrigPath(l)
    \/ \E l \in Procs : DgLib(l)
    \/ \E l \in Procs : DgTimeout(l)
    \/ \E l \in Procs : BackupLookup(l)
    \/ \E l \in Procs : BackupRename(l)
    \/ \E l \in Procs : Symlink(l)
    \/ \E l \in Procs, spawnFails \in BOOLEAN : Exists(l, spawnFails)
    \/ \E l \in Procs, code \in ExitCodes : ProcessExit(l, code)
    \/ \E l \in Procs : Then(l)
    \/ \E l \in Procs : Catch(l)
    \/ \E l \in Procs : Finally(l)
    \/ \E defaultLib \in BOOLEAN, fails \in BOOLEAN : Discovery(defaultLib, fails)

\* the serial specification with a caller that may unsubscribe at any time
CancelSpec == Init /\ [][NextCancel]_vars

\* ------------------------------------------------------------------ claims

IsLaunch(l) == op[l] = "launch" /\ pc[l] # "idle"

Native(l) == IsLaunch(l) /\ opts[l].oculus

Managed(l) == IsLaunch(l) /\ ~opts[l].oculus

Events(l) == obs[l].events

IsTerminal(e) == e.t \in {"error", "complete"}

Delivered(l, e) == \E i \in 1..Len(Events(l)) : Events(l)[i] = e

\* C1: when the process inspector reported the game as running, the launch
\* delivers Failed(BS_ALREADY_RUNNING) as its only notification, never
\* Launching, and it changes nothing in the library root and spawns nothing.
C1_AlreadyRunning ==
    \A l \in Procs :
        (IsLaunch(l) /\ loc[l].running) =>
            /\ hist[l].muts = 0
            /\ ~hist[l].spawned
            /\ hist[l].cleanup = "none" /\ hist[l].prep = "none"
            /\ ~Delivered(l, NextEv(BS_LAUNCHING))
            /\ Events(l) \in {<<>>, <<ErrorEv(BS_ALREADY_RUNNING)>>}
            /\ (pc[l] = "done" => Events(l) = <<ErrorEv(BS_ALREADY_RUNNING)>>)

C1_Witness ==
    \E l \in Procs :
        /\ IsLaunch(l) /\ loc[l].running /\ pc[l] = "done"
        /\ Events(l) = <<ErrorEv(BS_ALREADY_RUNNING)>>
        /\ BsmSymlinks(fs) # {}

\* C2: a launch that passed the exclusivity check and ended while discovery
\* never resolved has failed with OCULUS_LIB_NOT_FOUND after at most one
\* timeout window.
C2_OneTimeoutWindow ==
    \A l \in Procs :
        (IsLaunch(l) /\ pc[l] = "done" /\ ~loc[l].running /\ oculusLib = "pending") =>
            /\ Events(l) = <<ErrorEv(OCULUS_LIB_NOT_FOUND)>>
            /\ hist[l].elapsed <= sToMs(TIMEOUT_S)

\* C3: a managed launch begun while a backup is left by a managed launch that
\* crashed gets no error from the backup step, and the backup is the same
\* when its preparation has ended.
C3_BackupOfCrashedRun ==
    \A l \in Procs :
        (Managed(l) /\ hist[l].stale0 = "crashed" /\ pc[l] \in {"exists", "catch"}
                    /\ hist[l].prep # "none") =>
            /\ hist[l].prepStep # "backup"
            /\ fs[OCULUS_BS_BACKUP_DIR] = hist[l].backup0

\* C4: when the preparation of a native launch has completed, the canonical
\* entry is not a managed link.
C4_NativeNoManagedLink ==
    \A l \in Procs :
        (Native(l) /\ pc[l] = "exists" /\ hist[l].prep = "ok") =>
            ~IsManagedLink(fs[OCULUS_BS_DIR])

\* C5: when the preparation of a managed launch has completed, the canonical
\* entry is a managed link to the version's directory, and what stood at the
\* canonical name before the launch (a directory, or a link that is not a
\* managed one) is now the backup.
C5_ManagedLinkAndBackup ==
    \A l \in Procs :
        (Managed(l) /\ pc[l] = "exists" /\ hist[l].prep = "ok") =>
            /\ fs[OCULUS_BS_DIR] = Junction(getInstalledVersionPath(opts[l].id))
            /\ IsManagedLink(fs[OCULUS_BS_DIR])
            /\ (pathExists(hist[l].canon0) /\ ~IsManagedLink(hist[l].canon0)) =>
                   fs[OCULUS_BS_BACKUP_DIR] = hist[l].canon0

C5_Witness ==
    \E l \in Procs :
        /\ Managed(l) /\ pc[l] = "exists" /\ hist[l].prep = "ok"
        /\ hist[l].canon0 = Dir("original")
        /\ fs[OCULUS_BS_BACKUP_DIR] = Dir("original")
        /\ fs[OCULUS_BS_DIR] = Junction("v2")

\* C6: a native launch begun while a managed launch (completed, failed or
\* crashed) has left the original directory as a backup ends its preparation
\* with that directory at the canonical name and no backup.
C6_StaleBackupHealed ==
    \A l \in Procs :
        (Native(l) /\ hist[l].stale0 # "none" /\ hist[l].backup0.kind = "dir"
                   /\ pc[l] \in {"exists", "catch"} /\ hist[l].prep # "none") =>
            /\ fs[OCULUS_BS_DIR] = hist[l].backup0
            /\ fs[OCULUS_BS_BACKUP_DIR] = None

\* C7: a launch stream delivers at most one terminal notification (an error
\* or the completion), and nothing after it.
C7_OneTerminal ==
    \A l \in Procs :
        /\ Cardinality({i \in 1..Len(Events(l)) : IsTerminal(Events(l)[i])}) <= 1
        /\ \A i \in 1..Len(Events(l)) : IsTerminal(Events(l)[i]) => i = Len(Events(l))
        /\ obs[l].stopped <=> \E i \in 1..Len(Events(l)) : IsTerminal(Events(l)[i])

C7_Witness ==
    \E l \in Procs :
        /\ IsLaunch(l) /\ pc[l] = "done" /\ loc[l].err = BS_NOT_FOUND
        /\ Events(l) = <<ErrorEv(BS_NOT_FOUND)>>

\* C8: a step of deleteBsSymlinks changes an entry of the library root only
\* by removing it, and only if it is a directory link whose name starts with
\* the canonical name and whose target holds metadata.config.
C8_OnlyMarkedLinksDeleted ==
    [][\A l \in Procs :
          pc[l] \in {"del_wait", "del_scan", "del_unlink"} =>
              \A n \in Names :
                  fs'[n] # fs[n] =>
                      /\ fs'[n] = None
                      /\ isJunction(fs[n])
                      /\ StartsWith(n, OCULUS_BS_DIR)
                      /\ HasMarker(fs[n].body)]_vars

C8_Witness ==
    \E l \in Procs :
        /\ hist[l].deleted # {}
        /\ fs[BS_SIBLING] = Junction("foreign")
        /\ fs[OTHER_ENTRY] = Junction("v2")
        /\ fs[OCULUS_BS_BACKUP_DIR] = Dir("original")

\* C9 as stated: a deleteBsSymlinks call that follows another one raises no
\* error and changes nothing.
C9_SecondCallNoError ==
    \A l \in Procs :
        (op[l] = "delete" /\ pc[l] = "done" /\ hist[l].prev \in {"delete_ok", "delete_err"}) =>
            /\ hist[l].result = "ok"
            /\ hist[l].muts = 0

\* C9 amended: a deleteBsSymlinks call that follows one that completed
\* without error changes nothing, and rejects only if reading the library
\* directory fails.
C9_SecondCallAfterSuccess ==
    \A l \in Procs :
        (op[l] = "delete" /\ pc[l] = "done" /\ hist[l].prev = "delete_ok") =>
            /\ hist[l].muts = 0
            /\ hist[l].result = "err" => hist[l].cause = "readdir"

C9_Witness ==
    \E l \in Procs :
        /\ op[l] = "delete" /\ pc[l] = "done" /\ hist[l].prev = "delete_ok"
        /\ hist[l].result = "ok" /\ hist[l].muts = 0
        /\ fs[OCULUS_BS_DIR] = None /\ fs[BS_SIBLING] = None

C11_CancelAfterLaunching ==
    \A l \in Procs :
        (IsLaunch(l) /\ hist[l].unsub = "running") =>
            /\ obs[l].events = <<NextEv(BS_LAUNCHING)>>
            /\ Len(obs[l].events) = hist[l].seen
            /\ pc[l] = "running" => l \in games.spawned
            /\ loc[l].err = "none"

C11_Witness ==
    \E l \in Procs :
        /\ IsLaunch(l) /\ hist[l].unsub = "running"
        /\ pc[l] = "done" /\ loc[l].exit \in ExitCodes
        /\ obs[l].events = <<NextEv(BS_LAUNCHING)>>

\* C12 as stated: once the caller has unsubscribed before a terminal event,
\* the launch holds no subscription to oculusLib$ and no timeout timer: it is
\* never found waiting for library discovery.
C12_CancelReleasesWaits ==
    \A l \in Procs :
        (IsLaunch(l) /\ hist[l].unsub # "none") =>
            ~(pc[l] \in {"del_wait", "dg_wait"} /\ oculusLib = "pending")

\* C13: a launch whose stale cleanup failed, for whatever cause, goes on to
\* preparation: it is in preparation or past it, and an error it carries was
\* raised by preparation or a later step, never by the cleanup.
C13_CleanupFailureGoesOn ==
    \A l \in Procs :
        (IsLaunch(l) /\ hist[l].cleanup = "err") =>
            /\ hist[l].cause \in {"lib", "readdir", "unlink"}
            /\ \/ pc[l] \in {"restore_lookup", "restore_rename", "orig_path",
                             "dg_wait", "backup_lookup", "backup_rename", "symlink"}
               \/ hist[l].prep # "none"
            /\ loc[l].err # "none" => hist[l].prep # "none"
            /\ Events(l) # <<>> => hist[l].prep # "none"

C13_Witness ==
    \E l \in Procs :
        /\ IsLaunch(l) /\ hist[l].cleanup = "err" /\ hist[l].cause = "unlink"
        /\ hist[l].prep = "ok" /\ pc[l] = "done"
        /\ Events(l) = <<NextEv(BS_LAUNCHING), CompleteEv>>

\* C15: every error a launch stream delivers carries one kind of the fixed
\* taxonomy: an unclassified exception is delivered as UNKNOWN_ERROR, a
\* classified one with the kind it was raised with.
C15_ClassifiedErrors ==
    \A l \in Procs :
        IsLaunch(l) =>
            \A i \in 1..Len(Events(l)) :
                Events(l)[i].t = "error" =>
                    /\ Events(l)[i].d \in ErrorKinds
                    /\ loc[l].err = "raw" => Events(l)[i].d = UNKNOWN_ERROR
                    /\ loc[l].err \in ErrorKinds => Events(l)[i].d = loc[l].err

C15_Witness ==
    \E l \in Procs :
        /\ IsLaunch(l) /\ pc[l] = "done" /\ loc[l].err = "raw"
        /\ Events(l) = <<ErrorEv(UNKNOWN_ERROR)>>

\* C16 as stated: the steps of a launch come in the order check, cleanup,
\* preparation, existence check, Launching, spawn, with Launching delivered
\* at most once and only when the existence check found the executable; a
\* launch that reached the existence check without finding the executable
\* ends with Failed(BS_NOT_FOUND) alone and spawns nothing.
C16_OrderAndExistenceGate ==
    \A l \in Procs :
        IsLaunch(l) =>
            /\ \A i, j \in 1..Len(Events(l)) :
                  (Events(l)[i] = NextEv(BS_LAUNCHING) /\ Events(l)[j] = NextEv(BS_LAUNCHING))
                      => i = j
            /\ hist[l].spawned => Delivered(l, NextEv(BS_LAUNCHING))
            /\ Delivered(l, NextEv(BS_LAUNCHING)) =>
                  /\ ~loc[l].running
                  /\ hist[l].cleanup # "none"
                  /\ hist[l].prep = "ok"
                  /\ hist[l].exe = "found"
            /\ (pc[l] = "done" /\ hist[l].prep = "ok" /\ hist[l].exe # "found") =>
                  /\ Events(l) = <<ErrorEv(BS_NOT_FOUND)>>
                  /\ ~hist[l].spawned

\* C18 as stated: a native launch whose game-folder lookup yields no path
\* fails in preparation: it never stands at the existence check, never
\* delivers Launching, and ends with Failed(OCULUS_LIB_NOT_FOUND) alone.
C18_NativeNoFolderFails ==
    \A l \in Procs :
        (Native(l) /\ loc[l].bsPath = "null") =>
            /\ pc[l] # "exists"
            /\ hist[l].prep # "ok"
            /\ ~Delivered(l, NextEv(BS_LAUNCHING))
            /\ pc[l] = "done" => Events(l) = <<ErrorEv(OCULUS_LIB_NOT_FOUND)>>

\* C20: when the process inspector's query rejects, the launch takes the game
\* as not running and goes on to the cleanup and then the preparation; it
\* never carries BS_ALREADY_RUNNING, and an error it carries was raised by the
\* preparation or a later step.
C20_InspectorFailureGoesOn ==
    \A l \in Procs :
        (IsLaunch(l) /\ hist[l].rejected) =>
            /\ ~loc[l].running
            /\ loc[l].err # BS_ALREADY_RUNNING
            /\ ~Delivered(l, ErrorEv(BS_ALREADY_RUNNING))
            /\ pc[l] \in {"del_wait", "del_scan", "del_unlink"} \/ hist[l].cleanup # "none"
            /\ hist[l].cleanup # "none" =>
                  \/ pc[l] \in {"restore_lookup", "restore_rename", "orig_path",
                                "dg_wait", "backup_lookup", "backup_rename", "symlink"}
                  \/ hist[l].prep # "none"
            /\ loc[l].err # "none" => hist[l].prep # "none"

C20_Witness ==
    \E l \in Procs :
        /\ IsLaunch(l) /\ hist[l].rejected /\ pc[l] = "running"
        /\ games.external
        /\ hist[l].cleanup = "ok" /\ hist[l].prep = "ok"
        /\ Events(l) = <<NextEv(BS_LAUNCHING)>>

\* C14 as stated: a managed launch whose symlink() was refused because the
\* canonical name in an existing library root was already taken ends with
\* Failed(LinkCreationError) as its only notification.
C14_LinkConflictKind ==
    \A l \in Procs :
        (/\ Managed(l) /\ pc[l] = "done"
         /\ hist[l].prepStep = "symlink" /\ libOnDisk) =>
            Events(l) = <<ErrorEv("LinkCreationError")>>

\* C17 as stated: of two launches subscribed concurrently, at most one passes
\* the exclusivity check, delivers Launching and spawns the executable.
C17_AtMostOneSuccess ==
    \A l, m \in Procs :
        (/\ l # m
         /\ IsLaunch(l) /\ ~loc[l].running
         /\ Delivered(l, NextEv(BS_LAUNCHING)) /\ hist[l].spawned) =>
            ~(/\ IsLaunch(m) /\ ~loc[m].running
              /\ Delivered(m, NextEv(BS_LAUNCHING)) /\ hist[m].spawned)

\* the platform's own install directory stands under the canonical name or
\* under the backup name
OriginalKept(f) ==
    \E n \in {OCULUS_BS_DIR, OCULUS_BS_BACKUP_DIR} : f[n] = Dir("original")

\* C19: whatever two concurrent launches do, and whichever of their steps
\* fails, a step that finds the platform's original install directory under
\* the canonical or the backup name leaves it under one of the two names,
\* never deleted and never replaced by another entry.
C19_OriginalNeverLost ==
    [][OriginalKept(fs) => OriginalKept(fs')]_vars

C19_Witness ==
    \E l, m \in Procs :
        /\ l # m /\ IsLaunch(l) /\ IsLaunch(m)
        /\ ~Finished(l) /\ pc[m] = "done"
        /\ hist[m].prep = "failed" /\ hist[m].muts > 0
        /\ hist[l].muts > 0
        /\ fs[OCULUS_BS_BACKUP_DIR] = Dir("original")
        /\ isJunction(fs[OCULUS_BS_DIR])

====
